---- MODULE Spec2Model ----
(***************************************************************************)
(* Model of the GODcoin-js transaction layer (src/src/tx.ts): the          *)
(* TxVariant envelope, the V0 transaction family, signing, the canonical   *)
(* wire format and the TxVerifyError taxonomy, together with the           *)
(* fixed-point Asset exercised by the asset test-suite.                    *)
(*                                                                         *)
(* Byte buffers are sequences of integers in 0..255.  A read returns a     *)
(* record [ok, val, off]: whether it succeeded, the value and the cursor   *)
(* after the read.  A 64-bit Long is kept as its 8 bytes plus the          *)
(* `unsigned` flag of long.js.                                             *)
(***************************************************************************)
EXTENDS Integers, Sequences, FiniteSets, TLC

VARIABLES tx, thrown, signerIn, sigRet, wire, dec, op,
          verr, vargs, vthrown, vwire, vdec,
          lhs, rhs, arith,
          str, parsed

vars == <<tx, thrown, signerIn, sigRet, wire, dec, op,
          verr, vargs, vthrown, vwire, vdec, lhs, rhs, arith, str, parsed>>

txVars == <<tx, thrown, signerIn, sigRet, wire, dec>>
errVars == <<verr, vargs, vthrown, vwire, vdec>>
assetVars == <<lhs, rhs, arith>>
parseVars == <<str, parsed>>

(***************************************************************************)
(* Bounds of the model.                                                    *)
(***************************************************************************)
\* number of sign calls explored on one transaction instance
MaxSigns == 8

\* number of signatures the second key pair contributes to one instance
MaxCoSigns == 1

\* number of sign calls explored on an instance constructed with signatures
MaxExtraSigns == 2

\* largest multiplier of the generated Asset operands
MaxOperand == 5

\* largest number of zeros generated after the '.' of an amount
MaxFracDigits == 6

(***************************************************************************)
(* Generic helpers.                                                        *)
(***************************************************************************)
\* an optional boolean argument: "undefined" when omitted, else "true"/"false"
Undefined == "undefined"

OptBool == {Undefined, "true", "false"}

\* the value of an optional boolean parameter declared with default d
Default(opt, d) == IF opt = Undefined THEN d ELSE opt = "true"

\* the absent object, and the absent error message
NoValue == [none |-> TRUE]

NoError == "none"

Rep(b, n) == [i \in 1..n |-> b]

Slice(s, from, len) == [i \in 1..len |-> s[from + i]]

\* the concatenation of the sequences in ss, by halves to keep the recursion shallow
RECURSIVE Flatten(_)
Flatten(ss) ==
    IF Len(ss) = 0 THEN <<>>
    ELSE IF Len(ss) = 1 THEN ss[1]
    ELSE Flatten(SubSeq(ss, 1, Len(ss) \div 2)) \o Flatten(SubSeq(ss, Len(ss) \div 2 + 1, Len(ss)))

Abs(n) == IF n < 0 THEN -n ELSE n

(***************************************************************************)
(* Binary buffer primitives (bytebuffer.ts).                               *)
(***************************************************************************)
ReadFail(off) == [ok |-> FALSE, val |-> "out of bounds", off |-> off]

ReadOk(v, off) == [ok |-> TRUE, val |-> v, off |-> off]

writeUint8(v) == <<v % 256>>

writeUint16(v) == <<(v \div 256) % 256, v % 256>>

writeUint32(v) == <<(v \div 16777216) % 256, (v \div 65536) % 256, (v \div 256) % 256, v % 256>>

writeUint64(long) == long.bytes

readBytes(buf, off, n) ==
    IF off + n <= Len(buf) THEN ReadOk(Slice(buf, off, n), off + n) ELSE ReadFail(off)

readUint8(buf, off) ==
    IF off + 1 <= Len(buf) THEN ReadOk(buf[off + 1], off + 1) ELSE ReadFail(off)

readUint16(buf, off) ==
    IF off + 2 <= Len(buf) THEN ReadOk(buf[off + 1] * 256 + buf[off + 2], off + 2) ELSE ReadFail(off)

readUint32(buf, off) ==
    IF off + 4 <= Len(buf)
    THEN ReadOk(buf[off + 1] * 16777216 + buf[off + 2] * 65536 + buf[off + 3] * 256 + buf[off + 4], off + 4)
    ELSE ReadFail(off)

readUint64(buf, off) ==
    IF off + 8 <= Len(buf)
    THEN ReadOk([bytes |-> Slice(buf, off, 8), unsigned |-> TRUE], off + 8)
    ELSE ReadFail(off)

(***************************************************************************)
(* Wire encodings of the value types (serializer.ts, crypto.ts,            *)
(* script.ts): fixed-length keys, signatures and digests, length-prefixed  *)
(* blobs, text and scripts, and the sign-and-magnitude Asset encoding.     *)
(***************************************************************************)
PUB_KEY_LEN == 32

SIG_LEN == 64

DIGEST_LEN == 32

\* big-endian magnitude bytes of a natural number, without leading zeros
RECURSIVE MagBytes(_)
MagBytes(n) == IF n = 0 THEN <<>> ELSE MagBytes(n \div 256) \o <<n % 256>>

RECURSIVE MagValue(_)
MagValue(bs) == IF Len(bs) = 0 THEN 0 ELSE MagValue(SubSeq(bs, 1, Len(bs) - 1)) * 256 + bs[Len(bs)]

TypeSerializer_asset(asset) ==
    LET mag == MagBytes(Abs(asset.amount))
    IN  writeUint8(IF asset.amount < 0 THEN 1 ELSE 0) \o writeUint8(Len(mag)) \o mag

TypeDeserializer_asset(buf, off) ==
    LET sign == readUint8(buf, off)
        len == readUint8(buf, sign.off)
        mag == readBytes(buf, len.off, len.val)
    IN  IF ~sign.ok \/ ~len.ok THEN ReadFail(off)
        ELSE IF ~mag.ok THEN ReadFail(off)
        ELSE ReadOk([amount |-> IF sign.val = 1 THEN -MagValue(mag.val) ELSE MagValue(mag.val)], mag.off)

TypeSerializer_buffer(bytes) == writeUint32(Len(bytes)) \o bytes

TypeDeserializer_buffer(buf, off) ==
    LET len == readUint32(buf, off)
    IN  IF ~len.ok THEN ReadFail(off) ELSE readBytes(buf, len.off, len.val)

TypeSerializer_string(text) == TypeSerializer_buffer(text)

TypeDeserializer_string(buf, off) == TypeDeserializer_buffer(buf, off)

TypeSerializer_script(script) == TypeSerializer_buffer(script)

TypeDeserializer_script(buf, off) == TypeDeserializer_buffer(buf, off)

TypeSerializer_digest(bytes) == bytes

TypeDeserializer_digest(buf, off) == readBytes(buf, off, DIGEST_LEN)

TypeSerializer_publicKey(key) == key

TypeDeserializer_publicKey(buf, off) == readBytes(buf, off, PUB_KEY_LEN)

TypeSerializer_sigPair(sig) == TypeSerializer_publicKey(sig.publicKey) \o sig.signature

TypeDeserializer_sigPair(buf, off) ==
    LET key == TypeDeserializer_publicKey(buf, off)
        sg == readBytes(buf, key.off, SIG_LEN)
    IN  IF ~key.ok THEN ReadFail(off)
        ELSE IF ~sg.ok THEN ReadFail(off)
        ELSE ReadOk([publicKey |-> key.val, signature |-> sg.val], sg.off)

(***************************************************************************)
(* The V0 transaction family (tx.ts).  A transaction is a record           *)
(* [type, timestamp, fee, signaturePairs, data]; data holds the payload    *)
(* fields of the variant.                                                  *)
(***************************************************************************)
OWNER == 0

MINT == 1

REWARD == 2

TRANSFER == 3

TxType == {OWNER, MINT, REWARD, TRANSFER}

MAX_TX_SIGNATURES == 8

\* mutant: the constructor without its timestamp check
TxV0_constructor_unchecked(type, base, data) ==
    [ok |-> TRUE,
     val |-> [type |-> type, timestamp |-> base.timestamp, fee |-> base.fee,
              signaturePairs |-> base.signaturePairs, data |-> data]]

\* new TxV0(type, data): the header check of the constructor
TxV0_constructor(type, base, data) ==
    IF ~base.timestamp.unsigned
    THEN [ok |-> FALSE, val |-> "timestamp must be an unsigned long"]
    ELSE [ok |-> TRUE,
          val |-> [type |-> type, timestamp |-> base.timestamp, fee |-> base.fee,
                   signaturePairs |-> base.signaturePairs, data |-> data]]

OwnerTxV0_serializeData(t) ==
    TypeSerializer_publicKey(t.data.minter) \o TypeSerializer_digest(t.data.wallet)
        \o TypeSerializer_script(t.data.script)

MintTxV0_serializeData(t) ==
    TypeSerializer_digest(t.data.to) \o TypeSerializer_asset(t.data.amount)
        \o TypeSerializer_buffer(t.data.attachment) \o TypeSerializer_string(t.data.attachmentName)
        \o TypeSerializer_script(t.data.script)

RewardTxV0_serializeData(t) ==
    TypeSerializer_digest(t.data.to) \o TypeSerializer_asset(t.data.rewards)

TransferTxV0_serializeData(t) ==
    TypeSerializer_digest(t.data.from) \o TypeSerializer_digest(t.data.to)
        \o TypeSerializer_script(t.data.script) \o TypeSerializer_asset(t.data.amount)
        \o TypeSerializer_buffer(t.data.memo)

serializeData(t) ==
    CASE t.type = OWNER -> OwnerTxV0_serializeData(t)
      [] t.type = MINT -> MintTxV0_serializeData(t)
      [] t.type = REWARD -> RewardTxV0_serializeData(t)
      [] t.type = TRANSFER -> TransferTxV0_serializeData(t)

serializeHeader(t) ==
    writeUint8(t.type) \o writeUint64(t.timestamp) \o TypeSerializer_asset(t.fee)

\* mutant: includeSigs defaults to false
TxV0_serialize_defaultUnsigned(t, includeSigs) ==
    LET inc == Default(includeSigs, FALSE)
    IN  serializeHeader(t) \o serializeData(t)
          \o (IF inc
              THEN writeUint8(Len(t.signaturePairs))
                     \o Flatten([i \in 1..Len(t.signaturePairs) |-> TypeSerializer_sigPair(t.signaturePairs[i])])
              ELSE <<>>)

\* TxV0.serialize(buf, includeSigs = true): the bytes appended to buf
TxV0_serialize(t, includeSigs) ==
    LET inc == Default(includeSigs, TRUE)
    IN  serializeHeader(t) \o serializeData(t)
          \o (IF inc
              THEN writeUint8(Len(t.signaturePairs))
                     \o Flatten([i \in 1..Len(t.signaturePairs) |-> TypeSerializer_sigPair(t.signaturePairs[i])])
              ELSE <<>>)

\* TxVariant.serialize(buf, includeSigs): buf is the content already in the
\* buffer passed in (empty for a freshly allocated one)
TxVariant_serialize(t, buf, includeSigs) ==
    buf \o writeUint16(0) \o TxV0_serialize(t, includeSigs)

Throw(msg, off) == [ok |-> FALSE, val |-> msg, off |-> off]

\* mutant: the type tag is validated only after timestamp and fee are read
TxV0_deserializeHeader_lateCheck(buf, off) ==
    LET type == readUint8(buf, off)
        timestamp == readUint64(buf, type.off)
        fee == TypeDeserializer_asset(buf, timestamp.off)
    IN  IF ~type.ok THEN type
        ELSE IF ~timestamp.ok THEN timestamp
        ELSE IF ~fee.ok THEN fee
        ELSE IF type.val \notin TxType THEN Throw("unknown tx type deserializing header", fee.off)
        ELSE ReadOk(<<type.val, [timestamp |-> timestamp.val, fee |-> fee.val, signaturePairs |-> <<>>]>>,
                    fee.off)

TxV0_deserializeHeader(buf, off) ==
    LET type == readUint8(buf, off)
        timestamp == readUint64(buf, type.off)
        fee == TypeDeserializer_asset(buf, timestamp.off)
    IN  IF ~type.ok THEN type
        ELSE IF type.val \notin TxType THEN Throw("unknown tx type deserializing header", type.off)
        ELSE IF ~timestamp.ok THEN timestamp
        ELSE IF ~fee.ok THEN fee
        ELSE ReadOk(<<type.val, [timestamp |-> timestamp.val, fee |-> fee.val, signaturePairs |-> <<>>]>>,
                    fee.off)

RECURSIVE readSigPairs(_, _, _, _)
readSigPairs(buf, off, n, sigs) ==
    IF n = 0 THEN ReadOk(sigs, off)
    ELSE LET sig == TypeDeserializer_sigPair(buf, off)
         IN  IF ~sig.ok THEN sig ELSE readSigPairs(buf, sig.off, n - 1, Append(sigs, sig.val))

TxV0_deserializeSigs(buf, off) ==
    LET sigLen == readUint8(buf, off)
    IN  IF ~sigLen.ok THEN sigLen ELSE readSigPairs(buf, sigLen.off, sigLen.val, <<>>)

OwnerTxV0_deserializeData(buf, off) ==
    LET minter == TypeDeserializer_publicKey(buf, off)
        wallet == TypeDeserializer_digest(buf, minter.off)
        script == TypeDeserializer_script(buf, wallet.off)
    IN  IF ~minter.ok THEN minter
        ELSE IF ~wallet.ok THEN wallet
        ELSE IF ~script.ok THEN script
        ELSE ReadOk([minter |-> minter.val, wallet |-> wallet.val, script |-> script.val], script.off)

MintTxV0_deserializeData(buf, off) ==
    LET to == TypeDeserializer_digest(buf, off)
        amount == TypeDeserializer_asset(buf, to.off)
        attachment == TypeDeserializer_buffer(buf, amount.off)
        attachmentName == TypeDeserializer_string(buf, attachment.off)
        script == TypeDeserializer_script(buf, attachmentName.off)
    IN  IF ~to.ok THEN to
        ELSE IF ~amount.ok THEN amount
        ELSE IF ~attachment.ok THEN attachment
        ELSE IF ~attachmentName.ok THEN attachmentName
        ELSE IF ~script.ok THEN script
        ELSE ReadOk([to |-> to.val, amount |-> amount.val, attachment |-> attachment.val,
                     attachmentName |-> attachmentName.val, script |-> script.val], script.off)

RewardTxV0_deserializeData(buf, off) ==
    LET to == TypeDeserializer_digest(buf, off)
        rewards == TypeDeserializer_asset(buf, to.off)
    IN  IF ~to.ok THEN to
        ELSE IF ~rewards.ok THEN rewards
        ELSE ReadOk([to |-> to.val, rewards |-> rewards.val], rewards.off)

\* mutant: from and to are read in the opposite order
TransferTxV0_deserializeData_swapped(buf, off) ==
    LET to == TypeDeserializer_digest(buf, off)
        from == TypeDeserializer_digest(buf, to.off)
        script == TypeDeserializer_script(buf, from.off)
        amount == TypeDeserializer_asset(buf, script.off)
        memo == TypeDeserializer_buffer(buf, amount.off)
    IN  IF ~to.ok THEN to
        ELSE IF ~from.ok THEN from
        ELSE IF ~script.ok THEN script
        ELSE IF ~amount.ok THEN amount
        ELSE IF ~memo.ok THEN memo
        ELSE ReadOk([from |-> from.val, to |-> to.val, script |-> script.val,
                     amount |-> amount.val, memo |-> memo.val], memo.off)

TransferTxV0_deserializeData(buf, off) ==
    LET from == TypeDeserializer_digest(buf, off)
        to == TypeDeserializer_digest(buf, from.off)
        script == TypeDeserializer_script(buf, to.off)
        amount == TypeDeserializer_asset(buf, script.off)
        memo == TypeDeserializer_buffer(buf, amount.off)
    IN  IF ~from.ok THEN from
        ELSE IF ~to.ok THEN to
        ELSE IF ~script.ok THEN script
        ELSE IF ~amount.ok THEN amount
        ELSE IF ~memo.ok THEN memo
        ELSE ReadOk([from |-> from.val, to |-> to.val, script |-> script.val,
                     amount |-> amount.val, memo |-> memo.val], memo.off)

deserializeData(type, buf, off) ==
    CASE type = OWNER -> OwnerTxV0_deserializeData(buf, off)
      [] type = MINT -> MintTxV0_deserializeData(buf, off)
      [] type = REWARD -> RewardTxV0_deserializeData(buf, off)
      [] type = TRANSFER -> TransferTxV0_deserializeData(buf, off)

TxV0_deserialize(buf, off) ==
    LET header == TxV0_deserializeHeader(buf, off)
        data == deserializeData(header.val[1], buf, header.off)
        sigs == TxV0_deserializeSigs(buf, data.off)
        made == TxV0_constructor(header.val[1], [header.val[2] EXCEPT !.signaturePairs = sigs.val], data.val)
    IN  IF ~header.ok THEN header
        ELSE IF ~data.ok THEN data
        ELSE IF ~sigs.ok THEN sigs
        ELSE IF ~made.ok THEN Throw(made.val, sigs.off)
        ELSE ReadOk(made.val, sigs.off)

TxVariant_deserialize(buf) ==
    LET ver == readUint16(buf, 0)
    IN  IF ~ver.ok THEN ver
        ELSE IF ver.val = 0 THEN TxV0_deserialize(buf, ver.off)
        ELSE Throw("unknown tx version", ver.off)

(***************************************************************************)
(* The external signer (crypto.ts, tweetnacl): a key pair signs a message  *)
(* deterministically and returns its public key with the signature.        *)
(***************************************************************************)
KeyPairs == {1, 2}

\* the signature depends on the key and on the message (its length and last byte)
KeyPair_sign(keyPair, msg) ==
    [publicKey |-> Rep(keyPair, PUB_KEY_LEN),
     signature |-> Rep((keyPair * 101 + Len(msg) + msg[Len(msg)]) % 256, SIG_LEN)]

\* ByteBuffer.alloc(8192): a fresh buffer holds no written bytes
ByteBuffer_alloc == <<>>

\* ByteBuffer.sharedView(): the bytes written so far
sharedView(buf) == buf

\* mutant: sign serializes with the default includeSigs, signatures included
TxVariant_sign_signedForm(t, keyPair, append) ==
    LET buf == TxVariant_serialize(t, ByteBuffer_alloc, Undefined)
        sig == KeyPair_sign(keyPair, sharedView(buf))
    IN  [signed |-> sharedView(buf),
         sig |-> sig,
         tx |-> IF Default(append, TRUE)
                THEN [t EXCEPT !.signaturePairs = Append(t.signaturePairs, sig)]
                ELSE t]

\* mutant: sign assigns the list instead of pushing onto it
TxVariant_sign_replace(t, keyPair, append) ==
    LET buf == TxVariant_serialize(t, ByteBuffer_alloc, "false")
        sig == KeyPair_sign(keyPair, sharedView(buf))
    IN  [signed |-> sharedView(buf),
         sig |-> sig,
         tx |-> IF Default(append, TRUE)
                THEN [t EXCEPT !.signaturePairs = <<sig>>]
                ELSE t]

\* TxVariant.sign(keyPair, append = true): the bytes handed to the signer,
\* the pair returned, and the transaction afterwards
TxVariant_sign(t, keyPair, append) ==
    LET buf == TxVariant_serialize(t, ByteBuffer_alloc, "false")
        sig == KeyPair_sign(keyPair, sharedView(buf))
    IN  [signed |-> sharedView(buf),
         sig |-> sig,
         tx |-> IF Default(append, TRUE)
                THEN [t EXCEPT !.signaturePairs = Append(t.signaturePairs, sig)]
                ELSE t]

(***************************************************************************)
(* Values the transaction operations are exercised on.                     *)
(***************************************************************************)
Long(bytes, unsigned) == [bytes |-> bytes, unsigned |-> unsigned]

\* 1, 2^63 and 2^64-1 as unsigned Longs; 1 and -1 as signed Longs
Timestamps ==
    {Long(<<0, 0, 0, 0, 0, 0, 0, 1>>, TRUE), Long(<<128, 0, 0, 0, 0, 0, 0, 0>>, TRUE),
     Long(<<0, 0, 0, 0, 0, 0, 0, 1>>, FALSE), Long(<<255, 255, 255, 255, 255, 255, 255, 255>>, FALSE)}

Asset(amount) == [amount |-> amount]

Fees == {Asset(-70000)}

Payload(type) ==
    CASE type = OWNER -> [minter |-> Rep(7, PUB_KEY_LEN), wallet |-> Rep(9, DIGEST_LEN), script |-> <<1, 2>>]
      [] type = MINT -> [to |-> Rep(3, DIGEST_LEN), amount |-> Asset(256), attachment |-> <<5>>,
                         attachmentName |-> <<97, 98>>, script |-> <<>>]
      [] type = REWARD -> [to |-> Rep(4, DIGEST_LEN), rewards |-> Asset(100000)]
      [] type = TRANSFER -> [from |-> Rep(3, DIGEST_LEN), to |-> Rep(4, DIGEST_LEN), script |-> <<17>>,
                             amount |-> Asset(-1), memo |-> <<0, 255>>]

\* wire inputs derived from a valid encoding: the encoding itself, a changed
\* version tag, a changed type tag (also with nothing after it), and the
\* timestamp with its top bit set
SetByte(bytes, i, b) == [bytes EXCEPT ![i] = b]

Tampered(bytes) ==
    {bytes, SetByte(bytes, 2, 1), SetByte(bytes, 1, 1), SetByte(bytes, 3, 4), SetByte(bytes, 3, 255),
     SubSeq(SetByte(bytes, 3, 9), 1, 3), SetByte(bytes, 4, 128 + (bytes[4] % 128))}

(***************************************************************************)
(* The transaction operations as a state machine.  tx is the instance the  *)
(* caller holds; the other variables record what the last operation was    *)
(* given and what it produced.                                             *)
(***************************************************************************)
NoBytes == <<>>

\* the operation last performed and its optional boolean argument
Op(name, arg) == [name |-> name, arg |-> arg]

TxInit ==
    /\ tx = NoValue
    /\ thrown = NoError
    /\ signerIn = NoBytes
    /\ sigRet = NoValue
    /\ wire = NoBytes
    /\ dec = NoValue
    /\ op = Op("init", Undefined)

ErrInit == verr = NoValue /\ vargs = NoValue /\ vthrown = NoError /\ vwire = NoBytes /\ vdec = NoValue

AssetIdle == lhs = 0 /\ rhs = 0 /\ arith = NoValue

ParseIdle == str = NoBytes /\ parsed = NoValue

\* new OwnerTxV0(base, data) etc.
New(type, timestamp, fee) ==
    /\ tx = NoValue
    /\ LET made == TxV0_constructor(type, [timestamp |-> timestamp, fee |-> fee, signaturePairs |-> <<>>],
                                    Payload(type))
       IN  /\ tx' = IF made.ok THEN made.val ELSE NoValue
           /\ thrown' = IF made.ok THEN NoError ELSE made.val
    /\ op' = Op("new", Undefined)
    /\ signerIn' = NoBytes /\ sigRet' = NoValue /\ wire' = NoBytes /\ dec' = NoValue
    /\ UNCHANGED <<errVars, assetVars, parseVars>>

Sign(keyPair, append) ==
    /\ tx # NoValue
    /\ Len(tx.signaturePairs) < MaxSigns
    /\ keyPair = 2 /\ Default(append, TRUE) =>
          Cardinality({i \in DOMAIN tx.signaturePairs :
                         tx.signaturePairs[i].publicKey = Rep(2, PUB_KEY_LEN)}) < MaxCoSigns
    /\ LET r == TxVariant_sign(tx, keyPair, append)
       IN  /\ tx' = r.tx
           /\ signerIn' = r.signed
           /\ sigRet' = r.sig
    /\ op' = Op("sign", append)
    /\ thrown' = NoError /\ wire' = NoBytes /\ dec' = NoValue
    /\ UNCHANGED <<errVars, assetVars, parseVars>>

Serialize(includeSigs) ==
    /\ tx # NoValue
    /\ wire' = TxVariant_serialize(tx, ByteBuffer_alloc, includeSigs)
    /\ op' = Op("serialize", includeSigs)
    /\ thrown' = NoError /\ signerIn' = NoBytes /\ sigRet' = NoValue /\ dec' = NoValue
    /\ UNCHANGED <<tx, errVars, assetVars, parseVars>>

\* deserialize is given the signed encoding of the instance, possibly tampered
\* with, or its unsigned encoding
Deserialize ==
    /\ tx # NoValue
    /\ \E input \in Tampered(TxVariant_serialize(tx, ByteBuffer_alloc, "true"))
                      \cup {TxVariant_serialize(tx, ByteBuffer_alloc, "false")} :
          /\ wire' = input
          /\ dec' = TxVariant_deserialize(input)
    /\ op' = Op("deserialize", Undefined)
    /\ thrown' = NoError /\ signerIn' = NoBytes /\ sigRet' = NoValue
    /\ UNCHANGED <<tx, errVars, assetVars, parseVars>>

Init == TxInit /\ ErrInit /\ AssetIdle /\ ParseIdle

Next ==
    \/ \E type \in TxType, timestamp \in Timestamps, fee \in Fees : New(type, timestamp, fee)
    \/ \E keyPair \in KeyPairs, append \in OptBool : Sign(keyPair, append)
    \/ \E includeSigs \in OptBool : Serialize(includeSigs)
    \/ Deserialize

Spec == Init /\ [][Next]_vars

(***************************************************************************)
(* The verification error taxonomy (tx.ts) and the script evaluation       *)
(* error it nests (script.ts).                                             *)
(***************************************************************************)
ScriptEval == 0

ScriptHashMismatch == 1

ScriptRetFalse == 2

Arithmetic == 3

InsufficientBalance == 4

InvalidFeeAmount == 5

TooManySignatures == 6

TxTooLarge == 7

TxProhibited == 8

TxExpired == 9

TxDupe == 10

TxVerifyErrorKind ==
    {ScriptEval, ScriptHashMismatch, ScriptRetFalse, Arithmetic, InsufficientBalance, InvalidFeeAmount,
     TooManySignatures, TxTooLarge, TxProhibited, TxExpired, TxDupe}

\* the closed set of script evaluation error kinds
ScriptEvalErrorKind == 0..5

\* new ScriptEvalError(kind, position)
ScriptEvalError(kind, position) == [class |-> "ScriptEvalError", kind |-> kind, position |-> position]

\* an Error that is not a ScriptEvalError, and the omitted argument
PlainError == [class |-> "Error"]

NoMeta == [class |-> Undefined]

Message(kind) ==
    CASE kind = ScriptHashMismatch -> "script hash mismatch"
      [] kind = ScriptRetFalse -> "script returned false"
      [] kind = Arithmetic -> "arithmetic error"
      [] kind = InsufficientBalance -> "insufficient balance"
      [] kind = InvalidFeeAmount -> "invalid fee amount"
      [] kind = TooManySignatures -> "too many signatures"
      [] kind = TxTooLarge -> "tx too large"
      [] kind = TxProhibited -> "tx prohibited"
      [] kind = TxExpired -> "tx expired"
      [] kind = TxDupe -> "tx dupe"

\* mutant: ScriptEval accepts whatever payload it is given
TxVerifyError_constructor_lax(kind, meta) ==
    IF kind = ScriptEval
    THEN [ok |-> TRUE, val |-> [kind |-> kind, meta |-> meta, message |-> "script eval"]]
    ELSE IF kind \in TxVerifyErrorKind
    THEN [ok |-> TRUE, val |-> [kind |-> kind, meta |-> NoMeta, message |-> Message(kind)]]
    ELSE [ok |-> FALSE, val |-> "exhaustive check"]

\* new TxVerifyError(kind, meta)
TxVerifyError_constructor(kind, meta) ==
    IF kind = ScriptEval
    THEN IF meta.class # "ScriptEvalError"
         THEN [ok |-> FALSE, val |-> "invalid error type for ScriptEvalError"]
         ELSE [ok |-> TRUE, val |-> [kind |-> kind, meta |-> meta, message |-> "script eval"]]
    ELSE IF kind \in TxVerifyErrorKind
    THEN [ok |-> TRUE, val |-> [kind |-> kind, meta |-> NoMeta, message |-> Message(kind)]]
    ELSE [ok |-> FALSE, val |-> "exhaustive check"]

\* mutant: the offset is written as 2 bytes
TxVerifyError_serialize_short(e) ==
    writeUint8(e.kind)
      \o (IF e.kind = ScriptEval THEN writeUint16(e.meta.position) \o writeUint8(e.meta.kind) ELSE <<>>)

\* TxVerifyError.serialize(buf): the bytes appended to buf
TxVerifyError_serialize(e) ==
    writeUint8(e.kind)
      \o (IF e.kind = ScriptEval THEN writeUint32(e.meta.position) \o writeUint8(e.meta.kind) ELSE <<>>)

\* mutant: an unrecognized kind byte is decoded as TxDupe, and an
\* unrecognized nested kind as kind 0
TxVerifyError_deserialize_defaulting(buf) ==
    LET kind == readUint8(buf, 0)
        pos == readUint32(buf, kind.off)
        evalErrKind == readUint8(buf, pos.off)
        made == TxVerifyError_constructor(
                    IF kind.val \in TxVerifyErrorKind THEN kind.val ELSE TxDupe,
                    IF kind.val = ScriptEval
                    THEN ScriptEvalError(IF evalErrKind.val \in ScriptEvalErrorKind THEN evalErrKind.val ELSE 0,
                                         pos.val)
                    ELSE NoMeta)
    IN  IF ~kind.ok THEN kind
        ELSE IF kind.val = ScriptEval /\ ~pos.ok THEN pos
        ELSE IF kind.val = ScriptEval /\ ~evalErrKind.ok THEN evalErrKind
        ELSE ReadOk(made.val, IF kind.val = ScriptEval THEN evalErrKind.off ELSE kind.off)

\* TxVerifyError.deserialize(buf)
TxVerifyError_deserialize(buf) ==
    LET kind == readUint8(buf, 0)
        pos == readUint32(buf, kind.off)
        evalErrKind == readUint8(buf, pos.off)
        made == TxVerifyError_constructor(
                    kind.val,
                    IF kind.val = ScriptEval THEN ScriptEvalError(evalErrKind.val, pos.val) ELSE NoMeta)
    IN  IF ~kind.ok THEN kind
        ELSE IF kind.val \notin TxVerifyErrorKind THEN Throw("invalid tx error kind", kind.off)
        ELSE IF kind.val = ScriptEval /\ ~pos.ok THEN pos
        ELSE IF kind.val = ScriptEval /\ ~evalErrKind.ok THEN evalErrKind
        ELSE IF kind.val = ScriptEval /\ evalErrKind.val \notin ScriptEvalErrorKind
             THEN Throw("invalid script eval error kind", evalErrKind.off)
        ELSE IF ~made.ok THEN Throw(made.val, IF kind.val = ScriptEval THEN evalErrKind.off ELSE kind.off)
        ELSE ReadOk(made.val, IF kind.val = ScriptEval THEN evalErrKind.off ELSE kind.off)

\* script positions around the byte boundaries of the 4-byte offset
Positions == {0, 1, 255, 256, 65535, 65536, 16777216, 2147483647}

Metas == {NoMeta, PlainError} \cup {ScriptEvalError(k, p) : k \in ScriptEvalErrorKind, p \in Positions}

\* wire inputs for the error decoder: every single kind byte, and ScriptEval
\* followed by an offset and any nested byte from a sample
NestedBytes == 0..8 \cup {128, 255}

ErrInputs ==
    {<<b>> : b \in 0..255}
      \cup {<<ScriptEval>> \o writeUint32(p) \o <<n>> : p \in {0, 65536}, n \in NestedBytes}

TxIdle ==
    /\ tx = NoValue /\ thrown = NoError /\ signerIn = NoBytes /\ sigRet = NoValue
    /\ wire = NoBytes /\ dec = NoValue

\* vargs keeps the arguments of the constructor call
NewVerifyError(kind, meta) ==
    /\ verr = NoValue
    /\ LET made == TxVerifyError_constructor(kind, meta)
       IN  /\ verr' = IF made.ok THEN made.val ELSE NoValue
           /\ vthrown' = IF made.ok THEN NoError ELSE made.val
    /\ vargs' = [kind |-> kind, meta |-> meta]
    /\ op' = Op("new", Undefined)
    /\ vwire' = NoBytes /\ vdec' = NoValue
    /\ UNCHANGED <<txVars, assetVars, parseVars>>

SerializeVerifyError ==
    /\ verr # NoValue
    /\ vwire' = TxVerifyError_serialize(verr)
    /\ op' = Op("serialize", Undefined)
    /\ vargs' = NoValue /\ vthrown' = NoError /\ vdec' = NoValue
    /\ UNCHANGED <<verr, txVars, assetVars, parseVars>>

\* decode the encoding of the current error, or a crafted input
DeserializeVerifyError(input) ==
    /\ vwire' = input
    /\ vdec' = TxVerifyError_deserialize(input)
    /\ op' = Op("deserialize", Undefined)
    /\ vargs' = NoValue /\ vthrown' = NoError
    /\ UNCHANGED <<verr, txVars, assetVars, parseVars>>

InitErr == TxIdle /\ op = Op("init", Undefined) /\ ErrInit /\ AssetIdle /\ ParseIdle

NextErr ==
    \/ \E kind \in TxVerifyErrorKind, meta \in Metas : NewVerifyError(kind, meta)
    \/ SerializeVerifyError
    \/ \E input \in ErrInputs \cup (IF verr = NoValue THEN {} ELSE {TxVerifyError_serialize(verr)}) :
          DeserializeVerifyError(input)

SpecErr == InitErr /\ [][NextErr]_vars

(***************************************************************************)
(* The fixed-point Asset (asset.ts), as exercised by the asset tests: an   *)
(* integer number of minor units with PRECISION fractional digits.         *)
(***************************************************************************)
PRECISION == 5

RECURSIVE Pow10(_)
Pow10(n) == IF n = 0 THEN 1 ELSE 10 * Pow10(n - 1)

Sgn(n) == IF n < 0 THEN -1 ELSE 1

\* n fractional digits of r / d for 0 <= r < d, by long division, the rest dropped
RECURSIVE FracDigits(_, _, _)
FracDigits(r, d, n) ==
    IF n = 0 THEN 0
    ELSE ((r * 10) \div d) * Pow10(n - 1) + FracDigits((r * 10) % d, d, n - 1)

AssetOk(v) == [ok |-> TRUE, val |-> v]

AssetErr(msg) == [ok |-> FALSE, val |-> msg]

Asset_add(a, b) == AssetOk(a + b)

Asset_sub(a, b) == AssetOk(a - b)

\* mutant: the product is rounded half-up instead of truncated
Asset_mul_halfUp(a, b) ==
    AssetOk(Sgn(a) * Sgn(b) * ((Abs(a) * Abs(b) + Pow10(PRECISION) \div 2) \div Pow10(PRECISION)))

\* the decimal product, digits beyond PRECISION dropped
Asset_mul(a, b) ==
    AssetOk(Sgn(a) * Sgn(b) * ((Abs(a) * Abs(b)) \div Pow10(PRECISION)))

\* the decimal quotient, digits beyond PRECISION dropped
Asset_div(a, b) ==
    IF b = 0 THEN AssetErr("divide by zero")
    ELSE AssetOk(Sgn(a) * Sgn(b)
                   * ((Abs(a) \div Abs(b)) * Pow10(PRECISION)
                        + FracDigits(Abs(a) % Abs(b), Abs(b), PRECISION)))

(***************************************************************************)
(* Asset.fromString.  Text is a sequence of one-character strings; the     *)
(* parsed amount is kept as sign and decimal digits of the minor units.    *)
(***************************************************************************)
Digit == {"0", "1", "2", "3", "4", "5", "6", "7", "8", "9"}

SYMBOL == <<"G", "R", "A", "E", "L">>

\* the number of significant digits from which an amount is too large
TOO_LARGE_DIGITS == 21

Spaces(s) == {i \in 1..Len(s) : s[i] = " "}

\* s.split(' '): the number of tokens, and the first two of them
NumTokens(s) == Cardinality(Spaces(s)) + 1

Min(S) == CHOOSE x \in S : \A y \in S : x <= y

Token1(s) == IF Spaces(s) = {} THEN s ELSE SubSeq(s, 1, Min(Spaces(s)) - 1)

Token2(s) ==
    LET p == Min(Spaces(s))
        rest == Spaces(s) \ {p}
    IN  SubSeq(s, p + 1, IF rest = {} THEN Len(s) ELSE Min(rest) - 1)

Unsigned(tok) == IF Len(tok) > 0 /\ tok[1] = "-" THEN Tail(tok) ELSE tok

NotDot(c) == c # "."

\* the decimal parser accepts digits with at most one '.', at least one digit
ValidNumber(tok) ==
    LET body == Unsigned(tok)
    IN  /\ \A i \in 1..Len(body) : body[i] \in Digit \cup {"."}
        /\ Cardinality({i \in 1..Len(body) : body[i] = "."}) <= 1
        /\ \E i \in 1..Len(body) : body[i] \in Digit

\* the digits of the numeral without its leading zeros
Significant(tok) ==
    LET digits == SelectSeq(Unsigned(tok), NotDot)
        nonzero == {i \in 1..Len(digits) : digits[i] # "0"}
    IN  IF nonzero = {} THEN <<>> ELSE SubSeq(digits, Min(nonzero), Len(digits))

TooLarge(tok) == Len(Significant(tok)) >= TOO_LARGE_DIGITS

HasDot(tok) == \E i \in 1..Len(tok) : tok[i] = "."

\* the number of characters after the '.'
Decimals(tok) == Len(tok) - Min({i \in 1..Len(tok) : tok[i] = "."})

\* the minor units: the decimal point shifted right by PRECISION places
MinorUnits(tok) ==
    LET digits == Significant(tok)
    IN  IF digits = <<>> THEN [neg |-> FALSE, digits |-> <<"0">>]
        ELSE [neg |-> tok[1] = "-", digits |-> digits]

\* mutant: the '.' and the precision are examined before the numeral
Asset_fromString_structureFirst(s) ==
    IF NumTokens(s) # 2 THEN AssetErr("invalid format")
    ELSE LET amount == Token1(s)
             symbol == Token2(s)
         IN  IF ~HasDot(amount) THEN AssetErr("invalid format")
             ELSE IF Decimals(amount) # PRECISION THEN AssetErr("invalid precision")
             ELSE IF ~ValidNumber(amount) THEN AssetErr("amount must be a valid number")
             ELSE IF TooLarge(amount) THEN AssetErr("input too large")
             ELSE IF symbol # SYMBOL THEN AssetErr("asset type must be GRAEL")
             ELSE AssetOk(MinorUnits(amount))

Asset_fromString(s) ==
    IF NumTokens(s) # 2 THEN AssetErr("invalid format")
    ELSE LET amount == Token1(s)
             symbol == Token2(s)
         IN  IF ~ValidNumber(amount) THEN AssetErr("amount must be a valid number")
             ELSE IF TooLarge(amount) THEN AssetErr("input too large")
             ELSE IF ~HasDot(amount) THEN AssetErr("invalid format")
             ELSE IF Decimals(amount) # PRECISION THEN AssetErr("invalid precision")
             ELSE IF symbol # SYMBOL THEN AssetErr("asset type must be GRAEL")
             ELSE AssetOk(MinorUnits(amount))

\* test('fail parsing invalid input'): input and expected error
FailTests ==
    {<<<<"1", "b", "1", "0", ".", "0", "0", "0", "0", "0", " ", "G", "R", "A", "E", "L">>, "amount must be a valid number">>,
     <<<<"a", "1", "0", "0", ".", "0", "0", "0", "0", "0", " ", "G", "R", "A", "E", "L">>, "amount must be a valid number">>,
     <<<<"1", "0", "0", ".", "0", "0", "0", "0", "a", " ", "G", "R", "A", "E", "L">>, "amount must be a valid number">>,
     <<<<"1", " ", "G", "R", "A", "E", "L">>, "invalid format">>,
     <<<<"0", " ", "G", "R", "A", "E", "L">>, "invalid format">>,
     <<<<"1", ".", "0", "0", "0", "0", "0">>, "invalid format">>,
     <<<<"1", ".", "0", "0", "0", "0">>, "invalid format">>,
     <<<<"1", ".", " ", "G", "R", "A", "E", "L">>, "invalid precision">>,
     <<<<".", "1", " ", "G", "R", "A", "E", "L">>, "invalid precision">>,
     <<<<"-", ".", "1", " ", "G", "R", "A", "E", "L">>, "invalid precision">>,
     <<<<"0", ".", "1", " ", "G", "R", "A", "E", "L">>, "invalid precision">>,
     <<<<"1", ".", "0", " ", "G", "R", "A", "E", "L">>, "invalid precision">>,
     <<<<"-", "0", ".", "0", " ", "G", "R", "A", "E", "L">>, "invalid precision">>,
     <<<<"-", "1", ".", "0", " ", "G", "R", "A", "E", "L">>, "invalid precision">>,
     <<<<"1", ".", "0", "0", "0", "0", "0", "0", " ", "G", "R", "A", "E", "L">>, "invalid precision">>,
     <<<<"1", "2", "3", "4", "5", "6", "7", "8", "9", "0", "1", "2", "3", "4", "5", "6", "7", "8", "9", "0", "1", " ", "G", "R", "A", "E", "L">>, "input too large">>,
     <<<<"1", ".", "0", "0", "0", "0", "0", " ", "G", "R", "A", "E", "L", " ", "a">>, "invalid format">>,
     <<<<"1", ".", "0", "0", "0", "0", "0", " ", "g", "r", "a", "e", "l">>, "asset type must be GRAEL">>}

\* test('parse valid input'): input and expected amount
ValidTests ==
    {<<<<"1", ".", "0", "0", "0", "0", "0", " ", "G", "R", "A", "E", "L">>, [neg |-> FALSE, digits |-> <<"1", "0", "0", "0", "0", "0">>]>>,
     <<<<"-", "1", ".", "0", "0", "0", "0", "0", " ", "G", "R", "A", "E", "L">>, [neg |-> TRUE, digits |-> <<"1", "0", "0", "0", "0", "0">>]>>,
     <<<<".", "1", "0", "0", "0", "0", " ", "G", "R", "A", "E", "L">>, [neg |-> FALSE, digits |-> <<"1", "0", "0", "0", "0">>]>>,
     <<<<"-", ".", "1", "0", "0", "0", "0", " ", "G", "R", "A", "E", "L">>, [neg |-> TRUE, digits |-> <<"1", "0", "0", "0", "0">>]>>,
     <<<<"0", ".", "1", "0", "0", "0", "0", " ", "G", "R", "A", "E", "L">>, [neg |-> FALSE, digits |-> <<"1", "0", "0", "0", "0">>]>>,
     <<<<"0", ".", "0", "0", "0", "0", "0", " ", "G", "R", "A", "E", "L">>, [neg |-> FALSE, digits |-> <<"0">>]>>,
     <<<<"-", "0", ".", "0", "0", "0", "0", "0", " ", "G", "R", "A", "E", "L">>, [neg |-> FALSE, digits |-> <<"0">>]>>}

\* the division cases of test('perform arithmetic'): a, b and a.div(b)
DivTests ==
    {<<12345600, 2300000, 536765>>, <<12345600, -2300000, -536765>>,
     <<1000000, 200000, 500000>>, <<500000, 1000000, 50000>>}

(***************************************************************************)
(* Properties of signing and of the transaction wire format.               *)
(***************************************************************************)
\* version tag, header and payload: the serialization without signatures
UnsignedForm(t) == writeUint16(0) \o serializeHeader(t) \o serializeData(t)

IsPrefix(s, t) == Len(s) <= Len(t) /\ SubSeq(t, 1, Len(s)) = s

\* C1: a sign call leaves the bytes of serialize(includeSigs=false) as they
\* were, and the bytes it hands to the signer are exactly that unsigned form
\* (version tag, header, payload) written into a fresh buffer, whatever the
\* number of signatures the transaction holds: no count byte, no pair.
C1_SignsUnsignedForm ==
    [][op'.name = "sign" =>
          /\ TxVariant_serialize(tx', ByteBuffer_alloc, "false") = TxVariant_serialize(tx, ByteBuffer_alloc, "false")
          /\ signerIn' = TxVariant_serialize(tx, ByteBuffer_alloc, "false")
          /\ signerIn' = UnsignedForm([tx EXCEPT !.signaturePairs = <<>>])]_vars

\* a sign call made on a transaction that already held three signatures
C1_Witness ==
    /\ op.name = "sign"
    /\ Default(op.arg, TRUE)
    /\ Len(tx.signaturePairs) >= 4
    /\ signerIn = UnsignedForm(tx)

\* C2: decoding the signed serialization of a transaction with 0 to 8
\* signature pairs consumes all of it and yields the transaction itself:
\* same type tag, timestamp, fee, payload fields and pairs in the same order.
C2_RoundTrip ==
    (/\ op.name = "deserialize"
     /\ Len(tx.signaturePairs) <= MAX_TX_SIGNATURES
     /\ wire = TxVariant_serialize(tx, ByteBuffer_alloc, "true"))
        => /\ dec.ok
           /\ dec.val = tx
           /\ dec.val.type = tx.type
           /\ dec.val.signaturePairs = tx.signaturePairs
           /\ dec.off = Len(wire)

\* a Transfer with eight pairs from two different keys was decoded
C2_Witness ==
    /\ op.name = "deserialize"
    /\ tx.type = TRANSFER
    /\ Len(tx.signaturePairs) = MAX_TX_SIGNATURES
    /\ \E i, j \in DOMAIN tx.signaturePairs : tx.signaturePairs[i] # tx.signaturePairs[j]
    /\ wire = TxVariant_serialize(tx, ByteBuffer_alloc, "true")
    /\ dec.ok

\* C3: once constructed, an instance keeps type, timestamp, fee and payload;
\* its signature list only grows at the end: sign with append true or omitted
\* appends exactly the returned pair, sign with append=false returns a pair
\* and leaves the list alone, serialize and deserialize leave the instance
\* alone.
C3_AppendOnly ==
    [][tx # NoValue =>
          /\ tx'.type = tx.type /\ tx'.timestamp = tx.timestamp /\ tx'.fee = tx.fee /\ tx'.data = tx.data
          /\ IsPrefix(tx.signaturePairs, tx'.signaturePairs)
          /\ op'.name = "sign" =>
                /\ sigRet' \in {KeyPair_sign(k, signerIn') : k \in KeyPairs}
                /\ Default(op'.arg, TRUE) => tx'.signaturePairs = Append(tx.signaturePairs, sigRet')
                /\ op'.arg = "false" => tx'.signaturePairs = tx.signaturePairs
          /\ op'.name \in {"serialize", "deserialize"} => tx' = tx]_vars

\* sign with append=false by a key that has no pair in a non-empty list
C3_Witness ==
    /\ op.name = "sign"
    /\ op.arg = "false"
    /\ Len(tx.signaturePairs) >= 2
    /\ sigRet # NoValue
    /\ \A i \in DOMAIN tx.signaturePairs : tx.signaturePairs[i] # sigRet

\* the 8-byte timestamp field of a wire input has its top bit set
TimestampTopBit(bytes) == Len(bytes) >= 4 /\ bytes[4] >= 128

\* a valid signed encoding of t whose timestamp field got its top bit set
TopBitInput(t) ==
    LET bytes == TxVariant_serialize(t, ByteBuffer_alloc, "true")
    IN  SetByte(bytes, 4, 128 + (bytes[4] % 128))

\* C5 as stated: decoding an input whose timestamp has the top bit set fails.
C5_TopBitRejected ==
    op.name = "deserialize" /\ TimestampTopBit(wire) => ~dec.ok

\* C5 amended: the constructor rejects a timestamp whose Long is not flagged
\* unsigned, so no instance carries one; the decoder reads the 8 bytes as an
\* unsigned Long, so an otherwise valid input with the top bit set decodes
\* to a transaction holding exactly those 8 bytes as its unsigned timestamp.
C5_DecodesUnsigned ==
    /\ tx # NoValue => tx.timestamp.unsigned
    /\ thrown # NoError => tx = NoValue /\ thrown = "timestamp must be an unsigned long"
    /\ op.name = "deserialize" /\ dec.ok =>
          dec.val.timestamp.unsigned /\ dec.val.timestamp.bytes = Slice(wire, 3, 8)
    /\ op.name = "deserialize" /\ wire = TopBitInput(tx) => dec.ok

\* an input with the top bit set, made from a transaction without it, decoded
C5_Witness ==
    /\ op.name = "deserialize"
    /\ tx.timestamp.bytes[1] < 128
    /\ wire = TopBitInput(tx)
    /\ dec.ok
    /\ dec.val.timestamp.bytes[1] >= 128

\* C6: an input whose version tag is not 0x0000, or whose type tag is not
\* 0x00..0x03, makes deserialize fail without a transaction; the type-tag
\* error is raised with the cursor right after the tag (offset 3), before
\* timestamp, fee, payload or signatures are read, even when nothing follows.
C6_UnknownTagFails ==
    op.name = "deserialize" /\ Len(wire) >= 3 =>
        /\ wire[1] # 0 \/ wire[2] # 0 =>
              ~dec.ok /\ dec.val = "unknown tx version" /\ dec.off = 2
        /\ wire[1] = 0 /\ wire[2] = 0 /\ wire[3] \notin 0..3 =>
              ~dec.ok /\ dec.val = "unknown tx type deserializing header" /\ dec.off = 3

\* an unknown type tag with no byte after it was decoded
C6_Witness ==
    /\ op.name = "deserialize"
    /\ Len(wire) = 3
    /\ wire[3] \notin 0..3
    /\ ~dec.ok
    /\ dec.val = "unknown tx type deserializing header"

(***************************************************************************)
(* Properties of the verification error taxonomy.                          *)
(***************************************************************************)
\* C4 as stated: the constructor throws for ScriptEval without a script
\* evaluation error, and for any other kind given a payload.
C4_PayloadMismatchRejected ==
    op.name = "new" /\ vargs # NoValue =>
        /\ vargs.kind = ScriptEval /\ vargs.meta.class # "ScriptEvalError" => vthrown # NoError /\ verr = NoValue
        /\ vargs.kind # ScriptEval /\ vargs.meta # NoMeta => vthrown # NoError /\ verr = NoValue

\* C4 amended: the constructor throws exactly when the kind is ScriptEval and
\* the payload is not a script evaluation error; ScriptEval keeps its payload,
\* and any other kind is constructed whether or not a payload is supplied,
\* the payload being dropped.
C4_ScriptEvalNeedsPayload ==
    op.name = "new" /\ vargs # NoValue =>
        /\ vargs.kind = ScriptEval /\ vargs.meta.class # "ScriptEvalError" =>
              verr = NoValue /\ vthrown = "invalid error type for ScriptEvalError"
        /\ vargs.kind = ScriptEval /\ vargs.meta.class = "ScriptEvalError" =>
              vthrown = NoError /\ verr.kind = ScriptEval /\ verr.meta = vargs.meta
        /\ vargs.kind # ScriptEval =>
              vthrown = NoError /\ verr.kind = vargs.kind /\ verr.meta = NoMeta

\* a payload-free kind was constructed although a payload was passed
C4_Witness ==
    /\ op.name = "new"
    /\ vargs # NoValue
    /\ vargs.kind = TxExpired
    /\ vargs.meta.class = "ScriptEvalError"
    /\ verr # NoValue
    /\ verr.meta = NoMeta

\* C7: decoding the encoding of an error gives an error of the same kind;
\* a payload-free kind is 1 byte, ScriptEval is 1 + 4 + 1 bytes and decodes
\* to the same offset and nested kind.
C7_ErrorRoundTrip ==
    op.name = "deserialize" /\ verr # NoValue /\ vwire = TxVerifyError_serialize(verr) =>
        /\ vdec.ok
        /\ vdec.val.kind = verr.kind
        /\ vdec.off = Len(vwire)
        /\ verr.kind # ScriptEval => Len(vwire) = 1 /\ vwire[1] = verr.kind /\ vdec.val.meta = NoMeta
        /\ verr.kind = ScriptEval =>
              /\ Len(vwire) = 6
              /\ vwire[1] = ScriptEval
              /\ vwire[6] = verr.meta.kind
              /\ vdec.val.meta.position = verr.meta.position
              /\ vdec.val.meta.kind = verr.meta.kind

\* a ScriptEval error with an offset above 65535 and a non-zero nested kind
\* was encoded and decoded
C7_Witness ==
    /\ op.name = "deserialize"
    /\ verr # NoValue
    /\ verr.kind = ScriptEval
    /\ verr.meta.position > 65535
    /\ verr.meta.kind > 0
    /\ vwire = TxVerifyError_serialize(verr)
    /\ vdec.ok

\* C8: a kind byte outside 0x00..0x0a, or ScriptEval followed by an unknown
\* nested kind byte, makes the decoder fail; it never yields an error value.
C8_UnknownKindFails ==
    op.name = "deserialize" /\ Len(vwire) >= 1 =>
        /\ vwire[1] \notin 0..10 => ~vdec.ok /\ vdec.val = "invalid tx error kind"
        /\ vwire[1] = ScriptEval /\ Len(vwire) >= 6 /\ vwire[6] \notin ScriptEvalErrorKind =>
              ~vdec.ok /\ vdec.val = "invalid script eval error kind"
        /\ vdec.ok => vdec.val.kind = vwire[1]

\* a ScriptEval input with an unknown nested kind byte was refused
C8_Witness ==
    /\ op.name = "deserialize"
    /\ Len(vwire) = 6
    /\ vwire[1] = ScriptEval
    /\ vwire[6] \notin ScriptEvalErrorKind
    /\ ~vdec.ok

(***************************************************************************)
(* Asset arithmetic and parsing applied to drawn inputs.                   *)
(***************************************************************************)
\* generated operands, in minor units: 0 and +-m*u
Units == {1, 7, 3331}

Operands == {0} \cup {s * m * u : s \in {-1, 1}, m \in 1..MaxOperand, u \in Units}

InitAsset ==
    /\ TxIdle /\ ErrInit /\ ParseIdle
    /\ op = Op("init", Undefined)
    /\ arith = NoValue
    /\ \/ lhs \in Operands /\ rhs \in Operands
       \/ \E t \in DivTests : lhs = t[1] /\ rhs = t[2]

Generated == lhs \in Operands /\ rhs \in Operands

Add ==
    /\ arith = NoValue
    /\ arith' = Asset_add(lhs, rhs)
    /\ op' = Op("add", Undefined)
    /\ UNCHANGED <<lhs, rhs, txVars, errVars, parseVars>>

Sub ==
    /\ arith = NoValue
    /\ arith' = Asset_sub(lhs, rhs)
    /\ op' = Op("sub", Undefined)
    /\ UNCHANGED <<lhs, rhs, txVars, errVars, parseVars>>

Mul ==
    /\ arith = NoValue
    /\ Generated
    /\ arith' = Asset_mul(lhs, rhs)
    /\ op' = Op("mul", Undefined)
    /\ UNCHANGED <<lhs, rhs, txVars, errVars, parseVars>>

Div ==
    /\ arith = NoValue
    /\ arith' = Asset_div(lhs, rhs)
    /\ op' = Op("div", Undefined)
    /\ UNCHANGED <<lhs, rhs, txVars, errVars, parseVars>>

NextAsset == Add \/ Sub \/ Mul \/ Div

SpecAsset == InitAsset /\ [][NextAsset]_vars

\* amount tokens: optional sign, integer part, optional '.' and fraction
IntParts ==
    {<<>>, <<"0">>, <<"1">>, <<"1", "b", "1">>, <<"a", "1">>,
     <<"1", "2", "3", "4", "5", "6", "7", "8", "9", "0", "1", "2", "3", "4", "5", "6", "7", "8", "9", "0", "1">>}

FracParts ==
    {<<>>, <<".", "0", "0", "0", "0", "a">>, <<".", "1", "0", "0", "0", "0">>}
      \cup {<<".">> \o Rep("0", k) : k \in 0..MaxFracDigits}

Amounts == {s \o i \o f : s \in {<<>>, <<"-">>}, i \in IntParts, f \in FracParts}

Symbols == {SYMBOL, <<"g", "r", "a", "e", "l">>, <<"G", "R", "A", "E", "X">>}

Inputs ==
    Amounts
      \cup {a \o <<" ">> \o y : a \in Amounts, y \in Symbols}
      \cup {a \o <<" ">> \o y \o <<" ", "a">> : a \in Amounts, y \in Symbols}
      \cup {t[1] : t \in FailTests \cup ValidTests}

InitParse ==
    /\ TxIdle /\ ErrInit /\ AssetIdle
    /\ op = Op("init", Undefined)
    /\ parsed = NoValue
    /\ str \in Inputs

FromString ==
    /\ parsed = NoValue
    /\ parsed' = Asset_fromString(str)
    /\ op' = Op("fromString", Undefined)
    /\ UNCHANGED <<str, txVars, errVars, assetVars>>

NextParse == FromString

SpecParse == InitParse /\ [][NextParse]_vars

(***************************************************************************)
(* Properties of the Asset.                                                *)
(***************************************************************************)
Scale == Pow10(PRECISION)

\* C9: mul and div give the exact decimal product and quotient truncated
\* toward zero to 5 fractional digits: the magnitude of the result is the
\* largest multiple of 10^-5 not above the exact magnitude (so never rounded
\* up), negating an operand negates the result, and div by zero fails with
\* 'divide by zero'.  The division cases of the arithmetic test agree.
C9_TruncatesTowardZero ==
    /\ op.name = "mul" =>
          /\ arith.ok
          /\ Abs(arith.val) * Scale <= Abs(lhs * rhs)
          /\ Abs(lhs * rhs) < (Abs(arith.val) + 1) * Scale
          /\ arith.val # 0 => Sgn(arith.val) = Sgn(lhs) * Sgn(rhs)
          /\ Asset_mul(-lhs, rhs).val = -arith.val
          /\ Asset_mul(lhs, -rhs).val = -arith.val
    /\ op.name = "div" /\ rhs = 0 => ~arith.ok /\ arith.val = "divide by zero"
    /\ op.name = "div" /\ rhs # 0 /\ Generated =>
          /\ arith.ok
          /\ Abs(arith.val) * Abs(rhs) <= Abs(lhs) * Scale
          /\ Abs(lhs) * Scale < (Abs(arith.val) + 1) * Abs(rhs)
          /\ arith.val # 0 => Sgn(arith.val) = Sgn(lhs) * Sgn(rhs)
          /\ Asset_div(-lhs, rhs).val = -arith.val
          /\ Asset_div(lhs, -rhs).val = -arith.val
    /\ op.name = "div" => \A t \in DivTests : lhs = t[1] /\ rhs = t[2] => arith = AssetOk(t[3])

\* a negative quotient whose dropped digits amount to at least half a unit
C9_Witness ==
    /\ op.name = "div"
    /\ Generated
    /\ lhs < 0 /\ rhs > 0
    /\ arith.ok
    /\ arith.val < 0
    /\ ((Abs(lhs) * Scale) % rhs) * 2 >= rhs

\* C10: fromString reports the first failing check in the order token count,
\* numeral validity and size, presence of '.', 5 fractional digits, symbol:
\* a too large amount gives 'input too large' whatever its '.' and fraction,
\* a missing '.' gives 'invalid format' before the precision is examined, and
\* a wrong symbol is reported only when the amount passed every earlier
\* check.  The failing and the valid inputs of the parsing tests agree.
C10_FirstFailingCheck ==
    op.name = "fromString" =>
        LET n == NumTokens(str)
            amount == Token1(str)
        IN  /\ n # 2 => parsed = AssetErr("invalid format")
            /\ n = 2 /\ ~ValidNumber(amount) => parsed = AssetErr("amount must be a valid number")
            /\ n = 2 /\ ValidNumber(amount) /\ TooLarge(amount) => parsed = AssetErr("input too large")
            /\ n = 2 /\ ValidNumber(amount) /\ ~TooLarge(amount) /\ ~HasDot(amount) =>
                  parsed = AssetErr("invalid format")
            /\ n = 2 /\ ValidNumber(amount) /\ ~TooLarge(amount) /\ HasDot(amount)
                 /\ Decimals(amount) # PRECISION => parsed = AssetErr("invalid precision")
            /\ parsed = AssetErr("asset type must be GRAEL") =>
                  /\ n = 2 /\ ValidNumber(amount) /\ ~TooLarge(amount) /\ HasDot(amount)
                  /\ Decimals(amount) = PRECISION
                  /\ Token2(str) # SYMBOL
            /\ \A t \in FailTests : str = t[1] => parsed = AssetErr(t[2])
            /\ \A t \in ValidTests : str = t[1] => parsed = AssetOk(t[2])

\* a too large amount without '.' and with a wrong symbol was parsed
C10_Witness ==
    /\ op.name = "fromString"
    /\ NumTokens(str) = 2
    /\ TooLarge(Token1(str))
    /\ ~HasDot(Token1(str))
    /\ Token2(str) # SYMBOL
    /\ parsed = AssetErr("input too large")

(***************************************************************************)
(* Serialization of instances holding many signatures.  The constructor    *)
(* takes the signature list it is given (TxData.signaturePairs), so an     *)
(* instance may start with any number of pairs; sign then adds to them.    *)
(***************************************************************************)
\* numbers of pairs an instance is constructed with: none, and so many that
\* the sign calls explored take the count past what one byte can express
PreSigned == {0, 256 - MaxExtraSigns}

SignedBy(keyPair, t) == KeyPair_sign(keyPair, UnsignedForm(t))

InitSigs ==
    /\ ErrInit /\ AssetIdle /\ ParseIdle
    /\ thrown = NoError /\ signerIn = NoBytes /\ sigRet = NoValue /\ wire = NoBytes /\ dec = NoValue
    /\ op = Op("new", Undefined)
    /\ \E type \in TxType, k \in PreSigned :
          LET base == [timestamp |-> Long(<<0, 0, 0, 0, 0, 0, 0, 1>>, TRUE), fee |-> Asset(-70000),
                       signaturePairs |-> <<>>]
              bare == TxV0_constructor(type, base, Payload(type)).val
              made == TxV0_constructor(type, [base EXCEPT !.signaturePairs = Rep(SignedBy(1, bare), k)],
                                       Payload(type))
          IN  tx = made.val

\* sign, on an instance that has had fewer than MaxExtraSigns signatures added
SignOn(keyPair, append) ==
    /\ \E k \in PreSigned : Len(tx.signaturePairs) - k \in 0..(MaxExtraSigns - 1)
    /\ LET r == TxVariant_sign(tx, keyPair, append)
       IN  /\ tx' = r.tx
           /\ signerIn' = r.signed
           /\ sigRet' = r.sig
    /\ op' = Op("sign", append)
    /\ thrown' = NoError /\ wire' = NoBytes /\ dec' = NoValue
    /\ UNCHANGED <<errVars, assetVars, parseVars>>

NextSigs ==
    \/ \E keyPair \in KeyPairs, append \in OptBool : SignOn(keyPair, append)
    \/ \E includeSigs \in OptBool : Serialize(includeSigs)

SpecSigs == InitSigs /\ [][NextSigs]_vars

PAIR_LEN == PUB_KEY_LEN + SIG_LEN

\* bytes is the unsigned form of t, then one count byte of value count, then
\* the pairs of t in list order, and nothing else
IsSignedForm(bytes, t, count) ==
    LET unsignedForm == UnsignedForm(t)
        n == Len(t.signaturePairs)
        at == Len(unsignedForm)
    IN  /\ Len(bytes) = at + 1 + n * PAIR_LEN
        /\ SubSeq(bytes, 1, at) = unsignedForm
        /\ bytes[at + 1] = count
        /\ \A i \in 1..n :
              /\ Slice(bytes, at + 1 + (i - 1) * PAIR_LEN, PUB_KEY_LEN) = t.signaturePairs[i].publicKey
              /\ Slice(bytes, at + 1 + (i - 1) * PAIR_LEN + PUB_KEY_LEN, SIG_LEN) = t.signaturePairs[i].signature

\* C11 as stated: for every number n of pairs that sign calls can produce,
\* serialize with includeSigs true or omitted gives the unsigned form, one
\* count byte of value n, and the n pairs in list order.
C11_CountByteIsN ==
    op.name = "serialize" /\ Default(op.arg, TRUE) =>
        IsSignedForm(wire, tx, Len(tx.signaturePairs))

\* C11 amended: the same for every n from 0 to 255, the values one byte can
\* hold; the cap of 8 plays no part.
C11_SignedForm ==
    op.name = "serialize" /\ Default(op.arg, TRUE) /\ Len(tx.signaturePairs) <= 255 =>
        IsSignedForm(wire, tx, Len(tx.signaturePairs))

\* serialize without includeSigs on an instance holding more than the cap of
\* 8 pairs, from two different keys
C11_Witness ==
    /\ op.name = "serialize"
    /\ op.arg = Undefined
    /\ Len(tx.signaturePairs) > MAX_TX_SIGNATURES
    /\ Len(tx.signaturePairs) <= 255
    /\ \E i, j \in DOMAIN tx.signaturePairs : tx.signaturePairs[i] # tx.signaturePairs[j]
    /\ IsSignedForm(wire, tx, Len(tx.signaturePairs))

====
